---------------------------- MODULE Spec2Model ----------------------------
(***************************************************************************)
(* A model of the Fusion server core: the WebSocket session's outbound     *)
(* pipeline (server/src/websocket_session.cpp), the Game's team membership *)
(* (src/game.cpp) and the Server's registry (src/server.cpp).              *)
(*                                                                         *)
(* The specifications that share the module:                                  *)
(*   SessionSpec  one WebSocketSession: Run, Write, HandleHandshake,       *)
(*                HandleWrite;                                             *)
(*   GameSpec     one Game called by concurrent threads: Join, Leave with  *)
(*                the two team mutexes;                                    *)
(*   GameCallSpec one Game called by one caller, each call run from entry  *)
(*                to return: Join, Leave, BroadcastPackage;                *)
(*   ServerSpec   the Server registry called by concurrent threads:        *)
(*                Register, Unregister, Shutdown and the unjoined          *)
(*                delegate (MakeResponse);                                 *)
(*   ServerCallSpec  the same steps taken by one thread, so that each call *)
(*                runs from entry to return.                               *)
(* Each specification leaves the other parts' variables at their initial   *)
(* values.                                                                 *)
(***************************************************************************)
EXTENDS Naturals, Sequences, FiniteSets

VARIABLES
  \* ---- WebSocketSession (websocket_session.cpp) ----
  outgoing_queue_,     \* Impl::outgoing_queue_: payloads not yet popped
  handshake_complete,  \* Impl::handshake_complete (std::atomic<bool>)
  handshake,           \* the async_accept operation: "none", "pending", "done", "failed"
  writes_in_flight,    \* async_write operations started and not yet completed
  wire,                \* payloads whose async_write completed without error
  transport_error,     \* an async_write has completed with an error
  popped_empty,        \* HandleWrite has called pop() on an empty queue
  enqueued,            \* history: every payload handed to Write, in call order
  pre_handshake,       \* history: outgoing_queue_ when the handshake succeeded
  incomming_queue_,    \* Impl::incomming_queue_: the frames read and not popped
  read,                \* the async_read operation: "none", "pending", "failed"
  \* ---- Game (game.cpp) ----
  first_team_,         \* Game::first_team_: how many pairs of the set hold each session
  second_team_,        \* Game::second_team_
  first_team_mtx_,     \* the thread that holds Game::first_team_mtx_, or NoThread
  second_team_mtx_,    \* the thread that holds Game::second_team_mtx_, or NoThread
  game_pc,             \* where each calling thread is inside Join or Leave
  game_arg,            \* the session and team of the call a thread is in
  game_ret,            \* what a thread's last call returned
  players_cache_,      \* Game::players_cache_: session -> team ("kFirst", "kSecond")
  calls,               \* history: the calls the one caller has made, with their results
  hung,                \* the one caller is inside a call that does not return
  \* ---- Server (server.cpp) ----
  sessions_correlation_,   \* Server::sessions_correlation_: session -> optional game name
  unidentified_sessions_,  \* Server::unidentified_sessions_
  games_,                  \* Server::games_: game name -> Game
  games_mtx_,              \* the thread that holds Server::games_mtx_, or NoThread
  has_stopped_,            \* Server::has_stopped_
  delegate_,               \* each session's delegate_: "none", "unjoined" or a game's name
  server_pc,               \* where each calling thread is inside a Server method
  server_arg,              \* the session of the call, and the game name it carries
  server_ret,              \* the return statement a thread's last call left by
  unregister_returned,     \* history: an Unregister(s) call ran to its end
  null_game_used,          \* history: Unregister called Leave through a null games_ entry
  replies,                 \* history: per session, the game each answered frame asked for and the reply written
  removals,                \* history: how many Unregister(s) calls found s in sessions_correlation_
  raced,                   \* history: an Unregister(s) call overlapped the handling of s's join
  broadcasts,              \* history: how many frames of each session went to a Game's delegete_
  written,                 \* history: per session, the frames Write was called with, in the order of the calls
  \* ---- Server, the registry mutexes statement by statement ----
  mtx_owner,               \* the thread that holds each of the Server's three mutexes, or NoThread
  lock_pc                  \* the lock(), unlock() or return each thread is at

session_vars ==
  <<outgoing_queue_, handshake_complete, handshake, writes_in_flight, wire,
    transport_error, popped_empty, enqueued, pre_handshake, incomming_queue_,
    read>>

game_vars ==
  <<first_team_, second_team_, first_team_mtx_, second_team_mtx_, game_pc,
    game_arg, game_ret, players_cache_>>

call_vars == <<calls, hung>>

server_vars ==
  <<sessions_correlation_, unidentified_sessions_, games_, games_mtx_,
    has_stopped_, delegate_, server_pc, server_arg, server_ret,
    unregister_returned, null_game_used, replies, removals, raced,
    broadcasts, written>>

lock_vars == <<mtx_owner, lock_pc>>

vars == <<session_vars, game_vars, call_vars, server_vars, lock_vars>>

\* What the actions of one part leave alone.
not_session_vars == <<game_vars, call_vars, server_vars, lock_vars>>
not_game_vars == <<session_vars, call_vars, server_vars, lock_vars>>
not_server_vars == <<session_vars, game_vars, call_vars, lock_vars>>
not_lock_vars == <<session_vars, game_vars, call_vars, server_vars>>

(***************************************************************************)
(* Bounds.                                                                 *)
(***************************************************************************)
\* Number of Write calls made on the session.
MaxWrites == 5

\* Number of frames the peer sends to the session.
MaxReads == 2

\* Sessions whose Join and Leave calls GameSpec follows.
NumGameSessions == 2

\* Calls the one caller of GameCallSpec makes.
MaxCalls == 4

\* Threads that call into the Server in ServerLockSpec.
NumLockThreads == 3

\* Sessions that register with the Server in ServerSpec.
NumServerSessions == 2

\* Frames a session sends up to its successful join.
MaxFrames == 1

\* Frames a session sends after its successful join.
MaxGameFrames == 1

(***************************************************************************)
(* Sequence helpers.                                                       *)
(***************************************************************************)
IsPrefix(s, t) ==
  /\ Len(s) <= Len(t)
  /\ \A i \in 1..Len(s) : s[i] = t[i]

(***************************************************************************)
(* WebSocketSession                                                        *)
(***************************************************************************)

\* The error codes a completion handler receives: success, the peer's close
\* (boost::beast::websocket::error::closed), any other error.
ErrorCodes == {"ok", "closed", "error"}

\* outgoing_queue_.front(): the payload an async_write is started with.
\* Variant that takes the newest payload instead (back()).
QueueBack(q) == q[Len(q)]
QueueFront(q) == Head(q)

\* outgoing_queue_.pop().  On an empty std::queue it is undefined; the model
\* records that it happened (popped_empty) and leaves the queue empty.
QueuePop(q) == IF q = <<>> THEN <<>> ELSE Tail(q)

\* Write, after the push: whether it goes on to call async_write.  It returns
\* early when the queue holds more than the payload just pushed, and when
\* handshake_complete is false.
\* Variant without the handshake test, as Connection::Write has it
\* (connection.cpp:68-89).
WriteStartsAsyncWriteNoHandshakeCheck(q, hc) == ~(Len(q) > 1)
WriteStartsAsyncWrite(q, hc) == ~(Len(q) > 1) /\ hc

\* HandleHandshake, on success: whether it starts an async_write.
\* Variant that only posts the read, as Connection::HandleHandshake has it
\* (connection.cpp:133-150).
HandshakeNeverFlushes(q) == FALSE
HandshakeStartsAsyncWrite(q) == q # <<>>

\* HandleWrite, after the pop: whether it chains the next async_write.
HandleWriteChains(q) == q # <<>>

\* The constructor leaves handshake_complete false; no statement of
\* websocket_session.cpp assigns it afterwards, so HandleHandshake leaves it
\* as it is.
HandshakeCompleteAfterHandshake(hc) == hc

SessionInit ==
  /\ outgoing_queue_ = <<>>
  /\ handshake_complete = FALSE
  /\ handshake = "none"
  /\ writes_in_flight = <<>>
  /\ wire = <<>>
  /\ transport_error = FALSE
  /\ popped_empty = FALSE
  /\ enqueued = <<>>
  /\ pre_handshake = <<>>
  /\ incomming_queue_ = <<>>
  /\ read = "none"

\* WebSocketSession::Run: async_accept is posted.
Run ==
  /\ handshake = "none"
  /\ handshake' = "pending"
  /\ UNCHANGED <<outgoing_queue_, handshake_complete, writes_in_flight, wire,
                 transport_error, popped_empty, enqueued, pre_handshake>>
  /\ UNCHANGED <<incomming_queue_, read>>
  /\ UNCHANGED not_session_vars

\* WebSocketSession::Write(package), the whole body under outgoing_queue_mtx_.
\* The n-th call hands over payload n.
Write ==
  /\ Len(enqueued) < MaxWrites
  /\ LET package == Len(enqueued) + 1
         q == Append(outgoing_queue_, package)
     IN /\ enqueued' = Append(enqueued, package)
        /\ outgoing_queue_' = q
        /\ writes_in_flight' =
             IF WriteStartsAsyncWrite(q, handshake_complete)
               THEN Append(writes_in_flight, QueueFront(q))
               ELSE writes_in_flight
  /\ UNCHANGED <<handshake_complete, handshake, wire, transport_error,
                 popped_empty, pre_handshake>>
  /\ UNCHANGED <<incomming_queue_, read>>
  /\ UNCHANGED not_session_vars

\* WebSocketSession::HandleHandshake(ec): the completion of async_accept.  On
\* success it posts the first async_read after the flush.
HandleHandshake(ec) ==
  /\ handshake = "pending"
  /\ IF ec # "ok"
       THEN /\ handshake' = "failed"
            /\ UNCHANGED <<outgoing_queue_, handshake_complete,
                           writes_in_flight, wire, transport_error,
                           popped_empty, enqueued, pre_handshake, read>>
       ELSE /\ handshake' = "done"
            /\ read' = "pending"
            /\ handshake_complete' =
                 HandshakeCompleteAfterHandshake(handshake_complete)
            /\ writes_in_flight' =
                 IF HandshakeStartsAsyncWrite(outgoing_queue_)
                   THEN Append(writes_in_flight, QueueFront(outgoing_queue_))
                   ELSE writes_in_flight
            /\ pre_handshake' = outgoing_queue_
            /\ UNCHANGED <<outgoing_queue_, wire, transport_error,
                           popped_empty, enqueued>>
  /\ UNCHANGED incomming_queue_
  /\ UNCHANGED not_session_vars

\* WebSocketSession::HandleWrite(ec, n): the completion of the oldest
\* outstanding async_write.  With ec = "ok" the payload has been sent.
HandleWrite(ec) ==
  /\ writes_in_flight # <<>>
  /\ writes_in_flight' =
       IF ec = "ok" /\ HandleWriteChains(QueuePop(outgoing_queue_))
         THEN Append(Tail(writes_in_flight), QueueFront(QueuePop(outgoing_queue_)))
         ELSE Tail(writes_in_flight)
  /\ IF ec # "ok"
       THEN /\ transport_error' = TRUE
            /\ UNCHANGED <<outgoing_queue_, wire, popped_empty>>
       ELSE /\ wire' = Append(wire, Head(writes_in_flight))
            /\ popped_empty' = (popped_empty \/ outgoing_queue_ = <<>>)
            /\ outgoing_queue_' = QueuePop(outgoing_queue_)
            /\ UNCHANGED transport_error
  /\ UNCHANGED <<handshake_complete, handshake, enqueued, pre_handshake>>
  /\ UNCHANGED <<incomming_queue_, read>>
  /\ UNCHANGED not_session_vars

\* WebSocketSession::HandleRead(ec, n): the completion of the outstanding
\* async_read.  With an error it returns; otherwise it pushes the frame on
\* incomming_queue_ and posts the next async_read.  The n-th frame is n.
HandleRead(ec) ==
  /\ read = "pending"
  /\ IF ec # "ok"
       THEN /\ read' = "failed"
            /\ UNCHANGED incomming_queue_
       ELSE /\ Len(incomming_queue_) < MaxReads
            /\ incomming_queue_' =
                 Append(incomming_queue_, Len(incomming_queue_) + 1)
            /\ read' = "pending"
  /\ UNCHANGED <<outgoing_queue_, handshake_complete, handshake,
                 writes_in_flight, wire, transport_error, popped_empty,
                 enqueued, pre_handshake>>
  /\ UNCHANGED not_session_vars

SessionNext ==
  \/ Run
  \/ Write
  \/ \E ec \in ErrorCodes : HandleHandshake(ec)
  \/ \E ec \in ErrorCodes : HandleWrite(ec)
  \/ \E ec \in ErrorCodes : HandleRead(ec)

(***************************************************************************)
(* Game                                                                    *)
(***************************************************************************)

\* Game::kMaxPlayersPerTeam
kMaxPlayersPerTeam == 5

\* Game::Team
Teams == {"kRandom", "kFirst", "kSecond"}

\* The sessions that call Join and Leave while the model runs.
GameSessions == 1..NumGameSessions

\* Sessions that joined the game earlier, one call after the other, and make
\* no further call: FirstResidents(n) are n such members of the first team,
\* SecondResidents(n) of the second.
FirstResidents(n) == (NumGameSessions + 1)..(NumGameSessions + n)
SecondResidents(n) ==
  (NumGameSessions + kMaxPlayersPerTeam + 1)..
    (NumGameSessions + kMaxPlayersPerTeam + n)
AllGameSessions == 1..(NumGameSessions + 2 * kMaxPlayersPerTeam)

\* The team sizes a run starts from: a new game, a game with one free place
\* in each team, a game whose first team is full while the second has room,
\* and a full game.
InitialTeamSizes == {<<0, 0>>, <<4, 4>>, <<5, 3>>, <<5, 5>>}

\* The threads that carry the calls: two, so that every pair of calls overlaps
\* in every possible way.
GameThreads == {1, 2}
NoThread == 0
NoArg == [session |-> 0, team |-> "none"]

\* A team is a std::set of (session, player) pairs.  Every insert makes a new
\* Player, so two inserts of one session give two pairs: a team is modelled
\* by the number of pairs that hold each session.
TeamOf(members) == [s \in AllGameSessions |-> IF s \in members THEN 1 ELSE 0]

RECURSIVE SumTo(_, _)
SumTo(team, n) == IF n = 0 THEN 0 ELSE team[n] + SumTo(team, n - 1)

\* first_team_.size()
TeamSize(team) == SumTo(team, NumGameSessions + 2 * kMaxPlayersPerTeam)

\* The loop "for (pair : team) if (session == pair.first)".
InTeam(team, s) == team[s] > 0

\* team.insert({session, std::make_unique<Player>()})
TeamInsert(team, s) == [team EXCEPT ![s] = @ + 1]

\* team.erase(pair), for the first pair of the session the loop meets.
TeamErase(team, s) == [team EXCEPT ![s] = @ - 1]

\* "if (team.size() >= kMaxPlayersPerTeam) return {};"
\* Variant with the comparison off by one (>).
TeamIsFullOffByOne(team) == TeamSize(team) > kMaxPlayersPerTeam
TeamIsFull(team) == TeamSize(team) >= kMaxPlayersPerTeam

\* Team::kRandom: "if (first_team_.size() > second_team_.size())" picks the
\* second team, otherwise the first.
\* Variant that picks the second team also when the sizes are equal (>=).
RandomPicksSecondOnTie(first, second) == TeamSize(first) >= TeamSize(second)
RandomPicksSecond(first, second) == TeamSize(first) > TeamSize(second)

\* The values Join and Leave return.  "empty_in_game" and "empty_full" are both
\* the empty optional; the name records which return statement gave it.
JoinResults == {"joined", "empty_in_game", "empty_full"}
LeaveResults == {"true", "false"}

\* std::map<WebSocketSession*, Team> as the default member initialiser leaves
\* it.  game.cpp has no statement that names players_cache_: Join, Leave and
\* the other methods leave it as it is.
EmptyPlayersCache == <<>>

GameInit ==
  /\ \E sizes \in InitialTeamSizes :
       /\ first_team_ = TeamOf(FirstResidents(sizes[1]))
       /\ second_team_ = TeamOf(SecondResidents(sizes[2]))
  /\ first_team_mtx_ = NoThread
  /\ second_team_mtx_ = NoThread
  /\ game_pc = [t \in GameThreads |-> "idle"]
  /\ game_arg = [t \in GameThreads |-> NoArg]
  /\ game_ret = [t \in GameThreads |-> "none"]
  /\ players_cache_ = EmptyPlayersCache
  /\ calls = <<>>
  /\ hung = FALSE

\* A thread returns from Join or Leave with value r; the lock_guards of the
\* scopes it leaves release what it holds.
Return(t, r) ==
  /\ game_pc' = [game_pc EXCEPT ![t] = "idle"]
  /\ game_arg' = [game_arg EXCEPT ![t] = NoArg]
  /\ game_ret' = [game_ret EXCEPT ![t] = r]

Goto(t, label) ==
  /\ game_pc' = [game_pc EXCEPT ![t] = label]
  /\ UNCHANGED <<game_arg, game_ret>>

\* A thread enters Game::Join(session, team).
CallJoin(t, s, team) ==
  /\ game_pc[t] = "idle"
  /\ game_pc' = [game_pc EXCEPT ![t] = "IsInGame_first"]
  /\ game_arg' = [game_arg EXCEPT ![t] = [session |-> s, team |-> team]]
  /\ game_ret' = [game_ret EXCEPT ![t] = "none"]
  /\ UNCHANGED <<first_team_, second_team_, first_team_mtx_, second_team_mtx_>>
  /\ UNCHANGED players_cache_
  /\ UNCHANGED not_game_vars

\* Game::IsInGame, first block: first_team_ is searched under first_team_mtx_.
\* Found: IsInGame returns true and Join returns the empty optional.
IsInGameFirst(t) ==
  /\ game_pc[t] = "IsInGame_first"
  /\ first_team_mtx_ = NoThread
  /\ IF InTeam(first_team_, game_arg[t].session)
       THEN Return(t, "empty_in_game")
       ELSE Goto(t, "IsInGame_second")
  /\ UNCHANGED <<first_team_, second_team_, first_team_mtx_, second_team_mtx_>>
  /\ UNCHANGED players_cache_
  /\ UNCHANGED not_game_vars

\* Game::IsInGame, second block: second_team_ under second_team_mtx_.
IsInGameSecond(t) ==
  /\ game_pc[t] = "IsInGame_second"
  /\ second_team_mtx_ = NoThread
  /\ IF InTeam(second_team_, game_arg[t].session)
       THEN Return(t, "empty_in_game")
       ELSE Goto(t, "Join_switch")
  /\ UNCHANGED <<first_team_, second_team_, first_team_mtx_, second_team_mtx_>>
  /\ UNCHANGED players_cache_
  /\ UNCHANGED not_game_vars

\* Game::Join, case Team::kFirst: lock first_team_mtx_, test the size, insert.
\* The lock stays held while GetCurrentState() is evaluated for the return.
JoinFirst(t) ==
  /\ game_pc[t] = "Join_switch"
  /\ game_arg[t].team = "kFirst"
  /\ first_team_mtx_ = NoThread
  /\ IF TeamIsFull(first_team_)
       THEN /\ Return(t, "empty_full")
            /\ UNCHANGED <<first_team_, first_team_mtx_>>
       ELSE /\ first_team_' = TeamInsert(first_team_, game_arg[t].session)
            /\ first_team_mtx_' = t
            /\ Goto(t, "GetCurrentState_first")
  /\ UNCHANGED <<second_team_, second_team_mtx_>>
  /\ UNCHANGED players_cache_
  /\ UNCHANGED not_game_vars

\* Game::Join, case Team::kSecond.
JoinSecond(t) ==
  /\ game_pc[t] = "Join_switch"
  /\ game_arg[t].team = "kSecond"
  /\ second_team_mtx_ = NoThread
  /\ IF TeamIsFull(second_team_)
       THEN /\ Return(t, "empty_full")
            /\ UNCHANGED <<second_team_, second_team_mtx_>>
       ELSE /\ second_team_' = TeamInsert(second_team_, game_arg[t].session)
            /\ second_team_mtx_' = t
            /\ Goto(t, "GetCurrentState_first")
  /\ UNCHANGED <<first_team_, first_team_mtx_>>
  /\ UNCHANGED players_cache_
  /\ UNCHANGED not_game_vars

\* Game::Join, case Team::kRandom: "std::lock_guard l1{first_team_mtx_};"
JoinRandomLockFirst(t) ==
  /\ game_pc[t] = "Join_switch"
  /\ game_arg[t].team = "kRandom"
  /\ first_team_mtx_ = NoThread
  /\ first_team_mtx_' = t
  /\ Goto(t, "Join_random_l2")
  /\ UNCHANGED <<first_team_, second_team_, second_team_mtx_>>
  /\ UNCHANGED players_cache_
  /\ UNCHANGED not_game_vars

\* Game::Join, case Team::kRandom: "std::lock_guard l2{second_team_mtx_};" and
\* the body under both locks.
JoinRandom(t) ==
  /\ game_pc[t] = "Join_random_l2"
  /\ second_team_mtx_ = NoThread
  /\ LET s == game_arg[t].session
         toSecond == RandomPicksSecond(first_team_, second_team_)
         full == IF toSecond THEN TeamIsFull(second_team_)
                             ELSE TeamIsFull(first_team_)
     IN IF full
          THEN /\ Return(t, "empty_full")
               /\ first_team_mtx_' = NoThread
               /\ UNCHANGED <<first_team_, second_team_, second_team_mtx_>>
          ELSE /\ first_team_' = IF toSecond THEN first_team_
                                             ELSE TeamInsert(first_team_, s)
               /\ second_team_' = IF toSecond THEN TeamInsert(second_team_, s)
                                              ELSE second_team_
               /\ second_team_mtx_' = t
               /\ Goto(t, "GetCurrentState_first")
               /\ UNCHANGED first_team_mtx_
  /\ UNCHANGED players_cache_
  /\ UNCHANGED not_game_vars

\* Game::GetCurrentState, called by Join with its team lock(s) held:
\* "std::lock_guard l{first_team_mtx_};" and the loop over first_team_.
\* rays_mtx_, taken and released before it, is held by nobody else for longer
\* than a loop and is left out.
\* When the caller itself holds first_team_mtx_ the lock() is undefined
\* behaviour: the thread never gets past it (it blocks for ever, or the
\* library reports the deadlock and the noexcept function ends the process),
\* or, on a build whose mutex lets its owner through, it goes on and the
\* guard's unlock leaves the owner's hold as it was.
GetCurrentStateFirst(t) ==
  /\ game_pc[t] = "GetCurrentState_first"
  /\ \/ /\ first_team_mtx_ = NoThread
        /\ Goto(t, "GetCurrentState_second")
     \/ /\ first_team_mtx_ = t
        /\ \/ Goto(t, "blocked")
           \/ Goto(t, "GetCurrentState_second")
  /\ UNCHANGED <<first_team_, second_team_, first_team_mtx_, second_team_mtx_>>
  /\ UNCHANGED players_cache_
  /\ UNCHANGED not_game_vars

\* Game::GetCurrentState: "std::lock_guard l{second_team_mtx_};", the loop over
\* second_team_, and the return of Join with the delegate and the state.
GetCurrentStateSecond(t) ==
  /\ game_pc[t] = "GetCurrentState_second"
  /\ \/ /\ second_team_mtx_ = NoThread
        /\ Return(t, "joined")
        /\ first_team_mtx_' = IF first_team_mtx_ = t THEN NoThread
                                                     ELSE first_team_mtx_
        /\ UNCHANGED second_team_mtx_
     \/ /\ second_team_mtx_ = t
        /\ \/ /\ Goto(t, "blocked")
              /\ UNCHANGED <<first_team_mtx_, second_team_mtx_>>
           \/ /\ Return(t, "joined")
              /\ first_team_mtx_' = IF first_team_mtx_ = t THEN NoThread
                                                           ELSE first_team_mtx_
              /\ second_team_mtx_' = NoThread
  /\ UNCHANGED <<first_team_, second_team_>>
  /\ UNCHANGED players_cache_
  /\ UNCHANGED not_game_vars

\* A thread enters Game::Leave(session).
CallLeave(t, s) ==
  /\ game_pc[t] = "idle"
  /\ game_pc' = [game_pc EXCEPT ![t] = "Leave_first"]
  /\ game_arg' = [game_arg EXCEPT ![t] = [session |-> s, team |-> "none"]]
  /\ game_ret' = [game_ret EXCEPT ![t] = "none"]
  /\ UNCHANGED <<first_team_, second_team_, first_team_mtx_, second_team_mtx_>>
  /\ UNCHANGED players_cache_
  /\ UNCHANGED not_game_vars

\* Game::Leave, first block: erase the session's pair from first_team_ and
\* return true, or go on to the second team.
LeaveFirst(t) ==
  /\ game_pc[t] = "Leave_first"
  /\ first_team_mtx_ = NoThread
  /\ IF InTeam(first_team_, game_arg[t].session)
       THEN /\ first_team_' = TeamErase(first_team_, game_arg[t].session)
            /\ Return(t, "true")
       ELSE /\ Goto(t, "Leave_second")
            /\ UNCHANGED first_team_
  /\ UNCHANGED <<second_team_, first_team_mtx_, second_team_mtx_>>
  /\ UNCHANGED players_cache_
  /\ UNCHANGED not_game_vars

\* Game::Leave, second block.
LeaveSecond(t) ==
  /\ game_pc[t] = "Leave_second"
  /\ second_team_mtx_ = NoThread
  /\ IF InTeam(second_team_, game_arg[t].session)
       THEN /\ second_team_' = TeamErase(second_team_, game_arg[t].session)
            /\ Return(t, "true")
       ELSE /\ Return(t, "false")
            /\ UNCHANGED second_team_
  /\ UNCHANGED <<first_team_, first_team_mtx_, second_team_mtx_>>
  /\ UNCHANGED players_cache_
  /\ UNCHANGED not_game_vars

GameNext ==
  \E t \in GameThreads :
    \/ \E s \in GameSessions, team \in Teams : CallJoin(t, s, team)
    \/ IsInGameFirst(t)
    \/ IsInGameSecond(t)
    \/ JoinFirst(t)
    \/ JoinSecond(t)
    \/ JoinRandomLockFirst(t)
    \/ JoinRandom(t)
    \/ GetCurrentStateFirst(t)
    \/ GetCurrentStateSecond(t)
    \/ \E s \in GameSessions : CallLeave(t, s)
    \/ LeaveFirst(t)
    \/ LeaveSecond(t)


(***************************************************************************)
(* Game, one caller: whole calls                                           *)
(***************************************************************************)

\* std::make_shared<Game>(): both teams empty.
NewGame == [first_team_ |-> TeamOf({}), second_team_ |-> TeamOf({})]

\* Game::IsInGame, run alone.
IsInGame(game, s) ==
  InTeam(game.first_team_, s) \/ InTeam(game.second_team_, s)

\* Game::GetPlayersCount
GetPlayersCount(game) == TeamSize(game.first_team_) + TeamSize(game.second_team_)

\* Variants of JoinAlone: one that reports success without inserting, one that
\* inserts before it tests the size and then refuses.
JoinAloneReportsOnly(game, s) == [inserted |-> TRUE, game |-> game]
JoinAloneInsertsThenRefuses(game, s) ==
  IF IsInGame(game, s)
    THEN [inserted |-> FALSE, game |-> game]
  ELSE IF RandomPicksSecond(game.first_team_, game.second_team_)
    THEN [inserted |-> ~TeamIsFull(game.second_team_),
          game |-> [game EXCEPT !.second_team_ = TeamInsert(@, s)]]
    ELSE [inserted |-> ~TeamIsFull(game.first_team_),
          game |-> [game EXCEPT !.first_team_ = TeamInsert(@, s)]]

\* Game::Join(session, nick) run alone, as the Server calls it under
\* games_mtx_: the team defaults to Team::kRandom.  The result is whether the
\* session was inserted and the game afterwards.
JoinAlone(game, s) ==
  IF IsInGame(game, s)
    THEN [inserted |-> FALSE, game |-> game]
  ELSE IF RandomPicksSecond(game.first_team_, game.second_team_)
    THEN IF TeamIsFull(game.second_team_)
           THEN [inserted |-> FALSE, game |-> game]
           ELSE [inserted |-> TRUE,
                 game |-> [game EXCEPT !.second_team_ = TeamInsert(@, s)]]
    ELSE IF TeamIsFull(game.first_team_)
           THEN [inserted |-> FALSE, game |-> game]
           ELSE [inserted |-> TRUE,
                 game |-> [game EXCEPT !.first_team_ = TeamInsert(@, s)]]

\* Game::Leave(session) run alone, as Unregister calls it under games_mtx_.
\* Variant that searches the second team only.
LeaveAloneSecondOnly(game, s) ==
  IF InTeam(game.second_team_, s)
    THEN [game EXCEPT !.second_team_ = TeamErase(@, s)]
    ELSE game
LeaveAlone(game, s) ==
  IF InTeam(game.first_team_, s)
    THEN [game EXCEPT !.first_team_ = TeamErase(@, s)]
  ELSE IF InTeam(game.second_team_, s)
    THEN [game EXCEPT !.second_team_ = TeamErase(@, s)]
    ELSE game

\* Game::Join, case Team::kFirst, run alone after IsInGame found the session
\* in neither team.
JoinFirstAlone(game, s) ==
  IF TeamIsFull(game.first_team_)
    THEN [inserted |-> FALSE, game |-> game]
    ELSE [inserted |-> TRUE,
          game |-> [game EXCEPT !.first_team_ = TeamInsert(@, s)]]

\* Game::Join, case Team::kSecond, run alone.
\* Variant that puts the session into the first team when the second is full.
JoinSecondAloneSpills(game, s) ==
  IF TeamIsFull(game.second_team_)
    THEN JoinFirstAlone(game, s)
    ELSE [inserted |-> TRUE,
          game |-> [game EXCEPT !.second_team_ = TeamInsert(@, s)]]
JoinSecondAlone(game, s) ==
  IF TeamIsFull(game.second_team_)
    THEN [inserted |-> FALSE, game |-> game]
    ELSE [inserted |-> TRUE,
          game |-> [game EXCEPT !.second_team_ = TeamInsert(@, s)]]

\* Game::Join(session, team) run alone: IsInGame, then the switch.
\* Variant without the IsInGame test.
JoinTeamAloneNoIsInGame(game, s, team) ==
  IF team = "kFirst" THEN JoinFirstAlone(game, s)
  ELSE IF team = "kSecond" THEN JoinSecondAlone(game, s)
  ELSE JoinAlone(game, s)
JoinTeamAlone(game, s, team) ==
  IF IsInGame(game, s)
    THEN [inserted |-> FALSE, game |-> game]
  ELSE IF team = "kFirst" THEN JoinFirstAlone(game, s)
  ELSE IF team = "kSecond" THEN JoinSecondAlone(game, s)
  ELSE JoinAlone(game, s)

\* What Join returns: the optional with the delegate and the state, or the
\* empty optional of "if (IsInGame(session))" or of a full team.
JoinReturn(game, s, inserted) ==
  IF inserted THEN "joined"
  ELSE IF IsInGame(game, s) THEN "empty_in_game"
  ELSE "empty_full"

\* What Leave returns.
\* Variant that returns true whether or not the session was found.
LeaveReturnAlwaysTrue(game, s) == "true"
LeaveReturn(game, s) == IF IsInGame(game, s) THEN "true" ELSE "false"

\* No Write call on any session.
NoWrites == [s \in AllGameSessions |-> 0]

\* The loop "for (pair : team) pair.first->Write(package)": one more Write for
\* each pair of the team.
WriteToTeam(writes, team) ==
  [s \in AllGameSessions |-> writes[s] + team[s]]

\* Game::BroadcastPackage run alone: the Write calls on first_team_, then on
\* second_team_.
\* Variant that stops after the first team.
BroadcastFirstTeamOnly(game) == WriteToTeam(NoWrites, game.first_team_)
BroadcastAlone(game) ==
  WriteToTeam(WriteToTeam(NoWrites, game.first_team_), game.second_team_)

\* The Game as the team variables hold it.
TheGame == [first_team_ |-> first_team_, second_team_ |-> second_team_]

\* One entry of the history of calls.
Call(op, s, team, ret, after, writes) ==
  [op |-> op, session |-> s, team |-> team, ret |-> ret,
   before |-> TheGame, after |-> after, writes |-> writes]

\* The caller calls Join(s, team).  A Join that has inserted the session
\* evaluates GetCurrentState with team mutexes held (see
\* GetCurrentStateFirst): the call returns, or it never does.
JoinCall(s, team) ==
  /\ ~hung
  /\ Len(calls) < MaxCalls
  /\ LET r == JoinTeamAlone(TheGame, s, team)
     IN /\ first_team_' = r.game.first_team_
        /\ second_team_' = r.game.second_team_
        /\ \/ /\ calls' = Append(calls,
                     Call("Join", s, team, JoinReturn(TheGame, s, r.inserted),
                          r.game, NoWrites))
              /\ UNCHANGED hung
           \/ /\ r.inserted
              /\ hung' = TRUE
              /\ calls' = Append(calls,
                     Call("Join", s, team, "no_return", r.game, NoWrites))
  /\ UNCHANGED <<first_team_mtx_, second_team_mtx_, game_pc, game_arg, game_ret>>
  /\ UNCHANGED players_cache_
  /\ UNCHANGED <<session_vars, server_vars, lock_vars>>

\* The caller calls Leave(s).
LeaveCall(s) ==
  /\ ~hung
  /\ Len(calls) < MaxCalls
  /\ LET after == LeaveAlone(TheGame, s)
     IN /\ first_team_' = after.first_team_
        /\ second_team_' = after.second_team_
        /\ calls' = Append(calls,
             Call("Leave", s, "none", LeaveReturn(TheGame, s), after, NoWrites))
  /\ UNCHANGED hung
  /\ UNCHANGED <<first_team_mtx_, second_team_mtx_, game_pc, game_arg, game_ret>>
  /\ UNCHANGED players_cache_
  /\ UNCHANGED <<session_vars, server_vars, lock_vars>>

\* The game's delegete_ gets a package from session s, a member, and calls
\* BroadcastPackage(package).
BroadcastPackageCall(s) ==
  /\ ~hung
  /\ Len(calls) < MaxCalls
  /\ IsInGame(TheGame, s)
  /\ calls' = Append(calls,
       Call("BroadcastPackage", s, "none", "void", TheGame,
            BroadcastAlone(TheGame)))
  /\ UNCHANGED hung
  /\ UNCHANGED game_vars
  /\ UNCHANGED <<session_vars, server_vars, lock_vars>>

GameCallNext ==
  \/ \E s \in GameSessions, team \in Teams : JoinCall(s, team)
  \/ \E s \in GameSessions : LeaveCall(s)
  \/ \E s \in GameSessions : BroadcastPackageCall(s)

(***************************************************************************)
(* Server                                                                  *)
(***************************************************************************)

ServerSessions == 1..NumServerSessions

\* The threads that carry the calls into the Server.
ServerThreads == {1, 2}

\* The game names that join requests carry.
GameNames == {"alpha", "beta"}

\* The std::optional<std::string> without a value.
NoGame == "(none)"

\* The game that holds the sessions that joined before the model starts.
ResidentGameName == "alpha"

\* What a call keeps in its locals: the session, the game name (Unregister's
\* game_name, MakeResponse's game_name), and from MakeResponse's Join the
\* number of players in the returned state and whether games_.find missed.
NoServerArg == [session |-> 0, game |-> NoGame, players |-> 0, created |-> FALSE]

\* The sessions a game holds, in either team.
Members(game) == {s \in AllGameSessions : IsInGame(game, s)}

\* The replies MakeResponse builds.  `game` is not a member of the JSON object:
\* it records the name in the request the reply answers.  `players` is the
\* length of the players list, 0 where the reply has none.
JoinedReply(name, players) ==
  [game |-> name, type |-> "join-result", result |-> "joined", players |-> players]
FullReply(name) ==
  [game |-> name, type |-> "join-result", result |-> "full", players |-> 0]
\* Variant of the warning: the reply of a refused join in its place.
WarningReplyAsFull ==
  [game |-> NoGame, type |-> "join-result", result |-> "full", players |-> 0]
WarningReply ==
  [game |-> NoGame, type |-> "warning", result |-> "none", players |-> 0]

\* What a session's outgoing queue gets of a reply: its type and its result.
FrameOf(reply) == [type |-> reply.type, result |-> reply.result]

\* The package of a member that its game hands on to every member.
BroadcastFrame == [type |-> "broadcast", result |-> "none"]

\* session->Write(frame) on each of the sessions `to`: the frame goes to the
\* end of the session's outgoing queue.
WriteTo(w, to, frame) ==
  [x \in DOMAIN w |-> IF x \in to THEN Append(w[x], frame) ELSE w[x]]

\* Unregister, after Leave: "if (game->GetPlayersCount() == 0)" erases the game.
\* Variants: one that never erases, one that erases the game with one player
\* left in place of the empty one, one that erases whoever is left.
GameIsErasedNever(game) == FALSE
GameIsErasedOffByOne(game) == GetPlayersCount(game) = 1
GameIsErasedAlways(game) == TRUE
GameIsErased(game) == GetPlayersCount(game) = 0

\* std::map helpers: m[k] = v, and m.erase(k).
\* Variant of erase that leaves the entry in place.
MapEraseNothing(m, k) == m
MapPut(m, k, v) == [x \in DOMAIN m \cup {k} |-> IF x = k THEN v ELSE m[x]]
MapErase(m, k) == [x \in DOMAIN m \ {k} |-> m[x]]

\* The server starts with no session registered, or with the game of
\* GameInit in games_ under ResidentGameName and its members, who joined
\* earlier, correlated to it.
ServerInit ==
  /\ sessions_correlation_ = [s \in Members(TheGame) |-> ResidentGameName]
  /\ unidentified_sessions_ = {}
  /\ games_ = IF Members(TheGame) = {}
                THEN <<>>
                ELSE [name \in {ResidentGameName} |-> TheGame]
  /\ games_mtx_ = NoThread
  /\ has_stopped_ = FALSE
  /\ delegate_ = [s \in ServerSessions |-> "none"]
  /\ server_pc = [t \in ServerThreads |-> "idle"]
  /\ server_arg = [t \in ServerThreads |-> NoServerArg]
  /\ server_ret = [t \in ServerThreads |-> "none"]
  /\ unregister_returned = [s \in ServerSessions |-> FALSE]
  /\ null_game_used = FALSE
  /\ replies = [s \in ServerSessions |-> <<>>]
  /\ removals = [s \in ServerSessions |-> 0]
  /\ raced = [s \in ServerSessions |-> FALSE]
  /\ broadcasts = [s \in ServerSessions |-> 0]
  /\ written = [s \in ServerSessions |-> <<>>]

ServerReturn(t, r) ==
  /\ server_pc' = [server_pc EXCEPT ![t] = "idle"]
  /\ server_arg' = [server_arg EXCEPT ![t] = NoServerArg]
  /\ server_ret' = [server_ret EXCEPT ![t] = r]

ServerGoto(t, label, s, g) ==
  /\ server_pc' = [server_pc EXCEPT ![t] = label]
  /\ server_arg' = [server_arg EXCEPT
                      ![t] = [session |-> s, game |-> g,
                              players |-> 0, created |-> FALSE]]
  /\ server_ret' = [server_ret EXCEPT ![t] = "none"]

\* The session's read loop hands each frame to the delegate the session has
\* when the frame is dispatched.
DispatchTarget(s) == delegate_[s]

\* The session's strand runs one handler of the session at a time.
InDelegate(s) ==
  \E t \in ServerThreads :
    /\ server_arg[t].session = s
    /\ server_pc[t] \in {"Join_unidentified", "Join_correlation", "blocked"}

\* A session registers when it is created: no Register(s) call starts once an
\* Unregister(s) call has started.
UnregisterInProgress(s) ==
  \E t \in ServerThreads :
    /\ server_arg[t].session = s
    /\ server_pc[t] \in {"Unregister_correlation", "Unregister_unidentified",
                         "Unregister_game"}

UnregisterStarted(s) == unregister_returned[s] \/ UnregisterInProgress(s)

\* Register: "sessions_correlation_.count(session) != 0".
\* Variant that never finds the session.
IsRegisteredNever(correlation, s) == FALSE
IsRegistered(correlation, s) == s \in DOMAIN correlation

\* Server::Register(session), first part, under sessions_correlation_mtx_: a
\* session that is already a key is left alone; a new one gets the empty
\* optional.
RegisterCorrelation(t, s) ==
  /\ server_pc[t] = "idle"
  /\ ~UnregisterStarted(s)
  /\ IF IsRegistered(sessions_correlation_, s)
       THEN /\ ServerReturn(t, "already_registered")
            /\ UNCHANGED sessions_correlation_
       ELSE /\ sessions_correlation_' = MapPut(sessions_correlation_, s, NoGame)
            /\ ServerGoto(t, "Register_unidentified", s, NoGame)
  /\ UNCHANGED <<unidentified_sessions_, games_, games_mtx_, has_stopped_,
                 delegate_, unregister_returned, null_game_used>>
  /\ UNCHANGED <<replies, removals, raced>>
  /\ UNCHANGED <<broadcasts, written>>
  /\ UNCHANGED not_server_vars

\* The session takes the delegate that Register returns as its delegate_, once.
InstallDelegate(d, s) == [d EXCEPT ![s] = IF @ = "none" THEN "unjoined" ELSE @]

\* Server::Register(session), second part, under unidentified_sessions_mtx_,
\* and the return of unjoined_delegate_.
RegisterUnidentified(t) ==
  /\ server_pc[t] = "Register_unidentified"
  /\ unidentified_sessions_' = unidentified_sessions_ \cup {server_arg[t].session}
  /\ delegate_' = InstallDelegate(delegate_, server_arg[t].session)
  /\ ServerReturn(t, "registered")
  /\ UNCHANGED <<sessions_correlation_, games_, games_mtx_, has_stopped_,
                 unregister_returned, null_game_used>>
  /\ UNCHANGED <<replies, removals, raced>>
  /\ UNCHANGED <<broadcasts, written>>
  /\ UNCHANGED not_server_vars

\* Unregister's test of the flag that Shutdown sets.
\* Variant that does not see the flag.
UnregisterSeesStopNever == FALSE
UnregisterSeesStop == has_stopped_

\* Server::Unregister(session): "if (has_stopped_) return;"
UnregisterEnter(t, s) ==
  /\ server_pc[t] = "idle"
  /\ IF UnregisterSeesStop
       THEN ServerReturn(t, "stopped")
       ELSE ServerGoto(t, "Unregister_correlation", s, NoGame)
  /\ UNCHANGED <<sessions_correlation_, unidentified_sessions_, games_,
                 games_mtx_, has_stopped_, delegate_, unregister_returned,
                 null_game_used>>
  /\ raced' = [raced EXCEPT ![s] = @ \/ (~has_stopped_ /\ InDelegate(s))]
  /\ UNCHANGED <<replies, removals>>
  /\ UNCHANGED <<broadcasts, written>>
  /\ UNCHANGED not_server_vars

\* Server::Unregister, under sessions_correlation_mtx_: find the session, copy
\* its game name, erase the entry; or warn that it is not registered.
UnregisterCorrelation(t) ==
  /\ server_pc[t] = "Unregister_correlation"
  /\ LET s == server_arg[t].session
     IN IF s \in DOMAIN sessions_correlation_
          THEN /\ sessions_correlation_' = MapErase(sessions_correlation_, s)
               /\ ServerGoto(t,
                    IF sessions_correlation_[s] = NoGame
                      THEN "Unregister_unidentified" ELSE "Unregister_game",
                    s, sessions_correlation_[s])
               /\ UNCHANGED unregister_returned
          ELSE /\ ServerReturn(t, "not_registered")
               /\ unregister_returned' = [unregister_returned EXCEPT ![s] = TRUE]
               /\ UNCHANGED sessions_correlation_
  /\ UNCHANGED <<unidentified_sessions_, games_, games_mtx_, has_stopped_,
                 delegate_, null_game_used>>
  /\ removals' = [removals EXCEPT
                    ![server_arg[t].session] =
                       IF server_arg[t].session \in DOMAIN sessions_correlation_
                         THEN @ + 1 ELSE @]
  /\ UNCHANGED <<replies, raced>>
  /\ UNCHANGED <<broadcasts, written>>
  /\ UNCHANGED not_server_vars

\* Server::Unregister, "if (!game_name)": erase the session from
\* unidentified_sessions_ under its mutex.
UnregisterUnidentified(t) ==
  /\ server_pc[t] = "Unregister_unidentified"
  /\ LET s == server_arg[t].session
     IN /\ unidentified_sessions_' = unidentified_sessions_ \ {s}
        /\ unregister_returned' = [unregister_returned EXCEPT ![s] = TRUE]
  /\ ServerReturn(t, "unregistered_unidentified")
  /\ UNCHANGED <<sessions_correlation_, games_, games_mtx_, has_stopped_,
                 delegate_, null_game_used>>
  /\ UNCHANGED <<replies, removals, raced>>
  /\ UNCHANGED <<broadcasts, written>>
  /\ UNCHANGED not_server_vars

\* Server::Unregister, the else branch under games_mtx_: games_[name], Leave,
\* and the erase of a game left without players.  games_[name] on a missing
\* name inserts a null pointer, and Leave through it is undefined: the model
\* records it and leaves the map as it was.
UnregisterGame(t) ==
  /\ server_pc[t] = "Unregister_game"
  /\ games_mtx_ = NoThread
  /\ LET s == server_arg[t].session
         name == server_arg[t].game
     IN /\ IF name \in DOMAIN games_
             THEN LET game == LeaveAlone(games_[name], s)
                  IN /\ games_' = IF GameIsErased(game)
                                    THEN MapErase(games_, name)
                                    ELSE MapPut(games_, name, game)
                     /\ ServerReturn(t, IF GameIsErased(game)
                                          THEN "erased_game" ELSE "left_game")
                     /\ UNCHANGED null_game_used
             ELSE /\ null_game_used' = TRUE
                  /\ ServerReturn(t, "null_game")
                  /\ UNCHANGED games_
        /\ unregister_returned' = [unregister_returned EXCEPT ![s] = TRUE]
  /\ UNCHANGED <<sessions_correlation_, unidentified_sessions_, games_mtx_,
                 has_stopped_, delegate_>>
  /\ UNCHANGED <<replies, removals, raced>>
  /\ UNCHANGED <<broadcasts, written>>
  /\ UNCHANGED not_server_vars

\* Server::Shutdown
Shutdown ==
  /\ ~has_stopped_
  /\ has_stopped_' = TRUE
  /\ UNCHANGED <<sessions_correlation_, unidentified_sessions_, games_,
                 games_mtx_, delegate_, server_pc, server_arg, server_ret,
                 unregister_returned, null_game_used>>
  /\ UNCHANGED <<replies, removals, raced>>
  /\ UNCHANGED <<broadcasts, written>>
  /\ UNCHANGED not_server_vars

\* MakeResponse: "src->delegate_ = std::get<0>(join_result.value());", the
\* Game's delegete_ takes the place of the unjoined delegate.
\* Variant that leaves the session's delegate as it is.
SwapDelegateNever(d, s, name) == d
SwapDelegate(d, s, name) == [d EXCEPT ![s] = name]

\* The session's join has succeeded: it has got the "joined" reply.
JoinSucceeded(s) ==
  \E i \in 1..Len(replies[s]) : replies[s][i].result = "joined"

\* How many replies the session has got after the "joined" one.
RepliesAfterJoin(s) ==
  Len(replies[s])
    - (CHOOSE i \in 1..Len(replies[s]) : replies[s][i].result = "joined")

\* The session sends one more frame: it sends at most MaxFrames up to its
\* successful join and at most MaxGameFrames after it.
SendsFrame(s) ==
  IF JoinSucceeded(s)
    THEN broadcasts[s] + RepliesAfterJoin(s) < MaxGameFrames
    ELSE Len(replies[s]) < MaxFrames

\* unjoined_delegate_ called for a frame of session s whose type is "join" and
\* whose game is name; MakeResponse up to "gm.unlock()": find or create the
\* game and call Join on it, all under games_mtx_.
\* Join, once it has inserted the session, calls GetCurrentState with both
\* team mutexes held (see GetCurrentStateFirst): the thread goes no further,
\* still holding games_mtx_, or on a build whose mutex lets its owner through
\* Join returns and MakeResponse goes on.
JoinGame(t, s, name) ==
  /\ server_pc[t] = "idle"
  /\ DispatchTarget(s) = "unjoined"
  /\ ~InDelegate(s)
  /\ ~unregister_returned[s]
  /\ SendsFrame(s)
  /\ games_mtx_ = NoThread
  /\ LET created == name \notin DOMAIN games_
         found == IF created THEN NewGame ELSE games_[name]
         join_result == JoinAlone(found, s)
         joined_arg == [session |-> s, game |-> name,
                        players |-> GetPlayersCount(join_result.game),
                        created |-> created]
     IN /\ games_' = MapPut(games_, name, join_result.game)
        /\ IF ~join_result.inserted
             THEN /\ ServerReturn(t, "full")
                  /\ replies' = [replies EXCEPT ![s] = Append(@, FullReply(name))]
                  /\ written' = WriteTo(written, {s}, FrameOf(FullReply(name)))
                  /\ UNCHANGED <<games_mtx_, delegate_, raced>>
             ELSE /\ \/ /\ server_pc' = [server_pc EXCEPT ![t] = "blocked"]
                        /\ games_mtx_' = t
                        /\ UNCHANGED delegate_
                     \/ /\ server_pc' = [server_pc EXCEPT ![t] = "Join_unidentified"]
                        /\ delegate_' = SwapDelegate(delegate_, s, name)
                        /\ UNCHANGED games_mtx_
                  /\ server_arg' = [server_arg EXCEPT ![t] = joined_arg]
                  /\ server_ret' = [server_ret EXCEPT ![t] = "none"]
                  /\ raced' = [raced EXCEPT ![s] = @ \/ UnregisterInProgress(s)]
                  /\ UNCHANGED <<replies, written>>
  /\ UNCHANGED <<sessions_correlation_, unidentified_sessions_, has_stopped_,
                 unregister_returned, null_game_used, removals>>
  /\ UNCHANGED broadcasts
  /\ UNCHANGED not_server_vars

\* unjoined_delegate_ called for a frame of session s whose type is not
\* "join": MakeResponse warns and returns make_unidentified(), the delegate
\* writes it to the session.
UnidentifiedPackage(t, s) ==
  /\ server_pc[t] = "idle"
  /\ DispatchTarget(s) = "unjoined"
  /\ ~InDelegate(s)
  /\ ~unregister_returned[s]
  /\ SendsFrame(s)
  /\ replies' = [replies EXCEPT ![s] = Append(@, WarningReply)]
  /\ written' = WriteTo(written, {s}, FrameOf(WarningReply))
  /\ ServerReturn(t, "warning")
  /\ UNCHANGED <<sessions_correlation_, unidentified_sessions_, games_,
                 games_mtx_, has_stopped_, delegate_, unregister_returned,
                 null_game_used, removals, raced>>
  /\ UNCHANGED broadcasts
  /\ UNCHANGED not_server_vars

\* MakeResponse, after a successful Join: erase the session from
\* unidentified_sessions_ under its mutex.
JoinUnidentified(t) ==
  /\ server_pc[t] = "Join_unidentified"
  /\ unidentified_sessions_' = unidentified_sessions_ \ {server_arg[t].session}
  /\ server_pc' = [server_pc EXCEPT ![t] = "Join_correlation"]
  /\ UNCHANGED <<server_arg, server_ret>>
  /\ UNCHANGED <<sessions_correlation_, games_, games_mtx_, has_stopped_,
                 delegate_, unregister_returned, null_game_used>>
  /\ UNCHANGED <<replies, removals, raced>>
  /\ UNCHANGED <<broadcasts, written>>
  /\ UNCHANGED not_server_vars

\* MakeResponse: "sessions_correlation_[src] = game_name" under its mutex, the
\* "joined" response, and the delegate's Write of it.
JoinCorrelation(t) ==
  /\ server_pc[t] = "Join_correlation"
  /\ sessions_correlation_' =
       MapPut(sessions_correlation_, server_arg[t].session, server_arg[t].game)
  /\ ServerReturn(t, "joined")
  /\ UNCHANGED <<unidentified_sessions_, games_, games_mtx_, has_stopped_,
                 delegate_, unregister_returned, null_game_used>>
  /\ replies' = [replies EXCEPT
                   ![server_arg[t].session] =
                      Append(@, JoinedReply(server_arg[t].game,
                                            server_arg[t].players))]
  /\ written' = WriteTo(written, {server_arg[t].session},
                        FrameOf(JoinedReply(server_arg[t].game,
                                            server_arg[t].players)))
  /\ UNCHANGED <<removals, raced>>
  /\ UNCHANGED broadcasts
  /\ UNCHANGED not_server_vars

\* Game::BroadcastPackage: Write is called on every session of the first
\* team, then on every session of the second.  Of these the model keeps the
\* sessions whose frames it follows.
BroadcastTargets(name) ==
  IF name \in DOMAIN games_
    THEN Members(games_[name]) \cap ServerSessions
    ELSE {}

\* The session's read loop hands a frame of session s to the Game's delegete_
\* that MakeResponse installed: "this->BroadcastPackage(package)".  The thread
\* enters no method of the Server.
GameDelegate(t, s) ==
  /\ server_pc[t] = "idle"
  /\ DispatchTarget(s) \in GameNames
  /\ ~InDelegate(s)
  /\ ~unregister_returned[s]
  /\ SendsFrame(s)
  /\ broadcasts' = [broadcasts EXCEPT ![s] = @ + 1]
  /\ written' = WriteTo(written, BroadcastTargets(DispatchTarget(s)),
                        BroadcastFrame)
  /\ UNCHANGED <<server_pc, server_arg, server_ret>>
  /\ UNCHANGED <<sessions_correlation_, unidentified_sessions_, games_,
                 games_mtx_, has_stopped_, delegate_, unregister_returned,
                 null_game_used, replies, removals, raced>>
  /\ UNCHANGED not_server_vars

\* The steps of thread t inside the Server's methods.
ServerStep(t) ==
  \/ \E s \in ServerSessions : RegisterCorrelation(t, s)
  \/ RegisterUnidentified(t)
  \/ \E s \in ServerSessions : UnregisterEnter(t, s)
  \/ UnregisterCorrelation(t)
  \/ UnregisterUnidentified(t)
  \/ UnregisterGame(t)
  \/ \E s \in ServerSessions, name \in GameNames : JoinGame(t, s, name)
  \/ \E s \in ServerSessions : UnidentifiedPackage(t, s)
  \/ JoinUnidentified(t)
  \/ JoinCorrelation(t)
  \/ \E s \in ServerSessions : GameDelegate(t, s)

ServerNext ==
  \/ \E t \in ServerThreads : ServerStep(t)
  \/ Shutdown

\* One thread makes all the calls, one after the other.
TheServerCaller == CHOOSE t \in ServerThreads : TRUE

ServerCallNext ==
  \/ ServerStep(TheServerCaller)
  \/ Shutdown

(***************************************************************************)
(* Server: the three registry mutexes, one step per lock(), unlock() and   *)
(* return.  What a locked section does to the maps is in the Server part   *)
(* above; here only the branch it leaves by matters.                       *)
(***************************************************************************)

LockThreads == 1..NumLockThreads

\* The mutexes, by their place in the order the locks are to be taken in:
\* sessions_correlation_mtx_, then unidentified_sessions_mtx_, then games_mtx_.
RegistryMutexes ==
  <<"sessions_correlation_mtx_", "unidentified_sessions_mtx_", "games_mtx_">>

Rank(m) == CHOOSE i \in 1..Len(RegistryMutexes) : RegistryMutexes[i] = m

\* The statements "std::unique_lock x{m};" of the three operations, each with
\* the mutex it locks.
LockStatements ==
  [Register_lock_scm     |-> "sessions_correlation_mtx_",
   Register_lock_usm     |-> "unidentified_sessions_mtx_",
   Unregister_lock_scm   |-> "sessions_correlation_mtx_",
   Unregister_lock_usm   |-> "unidentified_sessions_mtx_",
   Unregister_lock_gm    |-> "games_mtx_",
   MakeResponse_lock_gm  |-> "games_mtx_",
   MakeResponse_lock_usm |-> "unidentified_sessions_mtx_",
   MakeResponse_lock_scm |-> "sessions_correlation_mtx_"]

LockInit ==
  /\ mtx_owner = [m \in {RegistryMutexes[i] : i \in 1..Len(RegistryMutexes)}
                    |-> NoThread]
  /\ lock_pc = [t \in LockThreads |-> "idle"]

LockGoto(t, label) == lock_pc' = [lock_pc EXCEPT ![t] = label]

\* unlock(), or the end of the unique_lock's scope.
\* Variant that leaves the mutex with its owner.
UnlockNothing(owner, m) == owner
Unlock(owner, m) == [owner EXCEPT ![m] = NoThread]

\* A thread enters Register, Unregister (past the has_stopped_ test) or the
\* join branch of MakeResponse: the first statement of each is a lock.
CallServer(t, first) ==
  /\ lock_pc[t] = "idle"
  /\ first \in {"Register_lock_scm", "Unregister_lock_scm",
                "MakeResponse_lock_gm"}
  /\ LockGoto(t, first)
  /\ UNCHANGED mtx_owner
  /\ UNCHANGED not_lock_vars

\* "std::unique_lock x{m};": the thread waits until nobody holds m, and
\* takes it.
Lock(t) ==
  /\ lock_pc[t] \in DOMAIN LockStatements
  /\ mtx_owner[LockStatements[lock_pc[t]]] = NoThread
  /\ mtx_owner' = [mtx_owner EXCEPT ![LockStatements[lock_pc[t]]] = t]
  /\ LockGoto(t, CASE lock_pc[t] = "Register_lock_scm" -> "Register_in_scm"
                   [] lock_pc[t] = "Register_lock_usm" -> "Register_in_usm"
                   [] lock_pc[t] = "Unregister_lock_scm" -> "Unregister_in_scm"
                   [] lock_pc[t] = "Unregister_lock_usm" -> "Unregister_in_usm"
                   [] lock_pc[t] = "Unregister_lock_gm" -> "Unregister_in_gm"
                   [] lock_pc[t] = "MakeResponse_lock_gm" -> "MakeResponse_in_gm"
                   [] lock_pc[t] = "MakeResponse_lock_usm" -> "MakeResponse_in_usm"
                   [] lock_pc[t] = "MakeResponse_lock_scm" -> "MakeResponse_in_scm")
  /\ UNCHANGED not_lock_vars

\* Register under sessions_correlation_mtx_: the session is a key and Register
\* returns, the lock's scope ends; or the entry is made and "scm.unlock()".
RegisterLeaveScm(t) ==
  /\ lock_pc[t] = "Register_in_scm"
  /\ mtx_owner' = Unlock(mtx_owner, "sessions_correlation_mtx_")
  /\ \/ LockGoto(t, "idle")
     \/ LockGoto(t, "Register_lock_usm")
  /\ UNCHANGED not_lock_vars

\* Register: the insert, "usm.unlock()" and the return.
RegisterLeaveUsm(t) ==
  /\ lock_pc[t] = "Register_in_usm"
  /\ mtx_owner' = Unlock(mtx_owner, "unidentified_sessions_mtx_")
  /\ LockGoto(t, "idle")
  /\ UNCHANGED not_lock_vars

\* Unregister under sessions_correlation_mtx_: the session is found, erased,
\* "scm.unlock()", and the branch on game_name; or it is not found and the
\* lock's scope ends with the function.
UnregisterLeaveScm(t) ==
  /\ lock_pc[t] = "Unregister_in_scm"
  /\ mtx_owner' = Unlock(mtx_owner, "sessions_correlation_mtx_")
  /\ \/ LockGoto(t, "Unregister_lock_usm")
     \/ LockGoto(t, "Unregister_lock_gm")
     \/ LockGoto(t, "idle")
  /\ UNCHANGED not_lock_vars

\* Unregister: the erase from unidentified_sessions_, the end of usm's scope.
UnregisterLeaveUsm(t) ==
  /\ lock_pc[t] = "Unregister_in_usm"
  /\ mtx_owner' = Unlock(mtx_owner, "unidentified_sessions_mtx_")
  /\ LockGoto(t, "idle")
  /\ UNCHANGED not_lock_vars

\* Unregister: Leave, GetPlayersCount and the erase of the game, the end of
\* gm's scope.
UnregisterLeaveGm(t) ==
  /\ lock_pc[t] = "Unregister_in_gm"
  /\ mtx_owner' = Unlock(mtx_owner, "games_mtx_")
  /\ LockGoto(t, "idle")
  /\ UNCHANGED not_lock_vars

\* MakeResponse under games_mtx_: Join returns and "gm.unlock()", then the
\* full reply is returned or the join goes on.
MakeResponseLeaveGm(t) ==
  /\ lock_pc[t] = "MakeResponse_in_gm"
  /\ mtx_owner' = Unlock(mtx_owner, "games_mtx_")
  /\ \/ LockGoto(t, "idle")
     \/ LockGoto(t, "MakeResponse_lock_usm")
  /\ UNCHANGED not_lock_vars

\* MakeResponse under games_mtx_: Join has inserted the session and does not
\* return from GetCurrentState (see GetCurrentStateFirst); the thread keeps
\* games_mtx_.
MakeResponseJoinBlocks(t) ==
  /\ lock_pc[t] = "MakeResponse_in_gm"
  /\ LockGoto(t, "blocked")
  /\ UNCHANGED mtx_owner
  /\ UNCHANGED not_lock_vars

\* MakeResponse: the erase from unidentified_sessions_ and "usm.unlock()".
MakeResponseLeaveUsm(t) ==
  /\ lock_pc[t] = "MakeResponse_in_usm"
  /\ mtx_owner' = Unlock(mtx_owner, "unidentified_sessions_mtx_")
  /\ LockGoto(t, "MakeResponse_lock_scm")
  /\ UNCHANGED not_lock_vars

\* MakeResponse: the write of sessions_correlation_[src], "scm.unlock()" and
\* the return of the response.
MakeResponseLeaveScm(t) ==
  /\ lock_pc[t] = "MakeResponse_in_scm"
  /\ mtx_owner' = Unlock(mtx_owner, "sessions_correlation_mtx_")
  /\ LockGoto(t, "idle")
  /\ UNCHANGED not_lock_vars

LockNext ==
  \E t \in LockThreads :
    \/ \E first \in DOMAIN LockStatements : CallServer(t, first)
    \/ Lock(t)
    \/ RegisterLeaveScm(t)
    \/ RegisterLeaveUsm(t)
    \/ UnregisterLeaveScm(t)
    \/ UnregisterLeaveUsm(t)
    \/ UnregisterLeaveGm(t)
    \/ MakeResponseLeaveGm(t)
    \/ MakeResponseJoinBlocks(t)
    \/ MakeResponseLeaveUsm(t)
    \/ MakeResponseLeaveScm(t)

(***************************************************************************)
(* Specifications                                                          *)
(***************************************************************************)

Init == SessionInit /\ GameInit /\ ServerInit /\ LockInit

SessionSpec == Init /\ [][SessionNext]_vars

GameSpec == Init /\ [][GameNext]_vars

GameCallSpec == Init /\ [][GameCallNext]_vars

ServerSpec == Init /\ [][ServerNext]_vars

ServerCallSpec == Init /\ [][ServerCallNext]_vars

ServerLockSpec == Init /\ [][LockNext]_vars

(***************************************************************************)
(* Properties of the Server's registry.                                    *)
(***************************************************************************)

InSomeGame(s) ==
  \E name \in DOMAIN games_ : IsInGame(games_[name], s)

\* No Register, Unregister or unjoined-delegate call for s is under way.
NoCallInProgress(s) ==
  \A t \in ServerThreads : server_arg[t].session # s

\* C7: once an Unregister(s) call has run to its end, with the server not
\* stopped, s is no key of sessions_correlation_, not in
\* unidentified_sessions_ and a member of no game, in that state and in every
\* later one, also when the call overlaps the unjoined delegate's handling of
\* s's own join.
C7_UnregisteredStaysOut ==
  \A s \in ServerSessions :
    unregister_returned[s] =>
      /\ s \notin DOMAIN sessions_correlation_
      /\ s \notin unidentified_sessions_
      /\ ~InSomeGame(s)

\* C8: whenever no call is under way for a session s, s is in
\* unidentified_sessions_ exactly when sessions_correlation_ has an entry for
\* s that holds no game name.
C8_UnidentifiedIffNoGameName ==
  \A s \in ServerSessions :
    NoCallInProgress(s) =>
      (s \in unidentified_sessions_
         <=> (s \in DOMAIN sessions_correlation_
                /\ sessions_correlation_[s] = NoGame))

\* C9: in every state, those in the middle of a join or of an Unregister
\* included, a session whose sessions_correlation_ entry holds a game name is
\* a member of the game that games_ holds under that name; and Unregister
\* never finds games_ without the game it looks up.
C9_CorrelatedGameHoldsSession ==
  /\ \A s \in DOMAIN sessions_correlation_ :
       sessions_correlation_[s] # NoGame =>
         /\ sessions_correlation_[s] \in DOMAIN games_
         /\ IsInGame(games_[sessions_correlation_[s]], s)
  /\ ~null_game_used

\* Two sessions are joined to the same game; the Unregister of one of them has
\* erased its correlation entry and is about to look the game up, while the
\* other one's entry still names the game.
C9_Witness ==
  \E t \in ServerThreads, s \in ServerSessions :
    /\ server_pc[t] = "Unregister_game"
    /\ server_arg[t].session # s
    /\ s \in DOMAIN sessions_correlation_
    /\ sessions_correlation_[s] = server_arg[t].game
    /\ IsInGame(games_[server_arg[t].game], s)
    /\ IsInGame(games_[server_arg[t].game], server_arg[t].session)

\* C10: the step that ends Unregister(s) for a session that is a member of
\* its game deletes the game from games_ when s was its last member, and
\* otherwise keeps it with exactly the other members, each in its team.
C10_EmptyGameIsErased ==
  [][\A t \in ServerThreads :
       (/\ server_pc[t] = "Unregister_game"
        /\ server_pc'[t] = "idle"
        /\ server_arg[t].game \in DOMAIN games_
        /\ IsInGame(games_[server_arg[t].game], server_arg[t].session))
       =>
         LET s == server_arg[t].session
             name == server_arg[t].game
             remaining == Members(games_[name]) \ {s}
         IN /\ remaining = {} => name \notin DOMAIN games_'
            /\ remaining # {} =>
                 /\ name \in DOMAIN games_'
                 /\ Members(games_'[name]) = remaining
                 /\ \A x \in remaining :
                      /\ games_'[name].first_team_[x] = games_[name].first_team_[x]
                      /\ games_'[name].second_team_[x] = games_[name].second_team_[x]
    ]_vars

\* One Unregister has left a game that kept its other member, and another has
\* removed the last member of a game and erased it: no game is left.
C10_Witness ==
  /\ \E t, u \in ServerThreads :
       /\ server_ret[t] = "left_game"
       /\ server_ret[u] = "erased_game"
  /\ DOMAIN games_ = {}

\* The game a join request for `name` finds or creates.
FoundGame(name) == IF name \in DOMAIN games_ THEN games_[name] ELSE NewGame

\* Thread t takes the step of MakeResponse in which Join inserts session s
\* into game `name`.
JoinInserts(t, s, name) ==
  /\ server_pc[t] = "idle"
  /\ server_pc'[t] \in {"Join_unidentified", "blocked"}
  /\ server_arg'[t].session = s
  /\ server_arg'[t].game = name

\* Session s gets the reply of a refused join of game `name`.
JoinRefused(s, name) ==
  /\ Len(replies'[s]) = Len(replies[s]) + 1
  /\ replies'[s][Len(replies'[s])].game = name
  /\ replies'[s][Len(replies'[s])].type = "join-result"
  /\ replies'[s][Len(replies'[s])].result = "full"

Balanced(game) ==
  \/ TeamSize(game.first_team_) = TeamSize(game.second_team_)
  \/ TeamSize(game.first_team_) = TeamSize(game.second_team_) + 1

C14_RefusedJoinChangesNothing ==
  [][\A s \in ServerSessions, name \in GameNames :
       JoinRefused(s, name) =>
         /\ UNCHANGED <<games_, sessions_correlation_, unidentified_sessions_,
                        delegate_>>
         /\ delegate_'[s] = "unjoined"
         /\ ~UnregisterStarted(s) =>
              /\ s \in unidentified_sessions_'
              /\ s \in DOMAIN sessions_correlation_'
              /\ sessions_correlation_'[s] = NoGame
    ]_vars

\* A session asked to join the full game and got join-result/full: it is
\* unidentified, not a member, and handled by the unjoined delegate.
C14_Witness ==
  \E s \in ServerSessions :
    /\ replies[s] = <<[game |-> ResidentGameName, type |-> "join-result",
                       result |-> "full", players |-> 0]>>
    /\ s \in unidentified_sessions_
    /\ s \in DOMAIN sessions_correlation_
    /\ sessions_correlation_[s] = NoGame
    /\ delegate_[s] = "unjoined"
    /\ ~IsInGame(games_[ResidentGameName], s)
    /\ GetPlayersCount(games_[ResidentGameName]) = 2 * kMaxPlayersPerTeam

\* C20: Unregister is idempotent.  For a session whose join was not being
\* handled while an Unregister of it ran: at most one Unregister(s) call finds
\* s in sessions_correlation_, exactly one when s was registered, so at most
\* one of them is in the games_ branch; and an Unregister(s) call that does
\* not find s returns and changes neither sessions_correlation_ nor
\* unidentified_sessions_ nor games_.
C20_UnregisterIsIdempotent ==
  [][\A s \in ServerSessions :
       ~raced'[s] =>
         /\ removals'[s] <= 1
         /\ (unregister_returned'[s] /\ delegate_'[s] # "none") =>
              removals'[s] = 1
         /\ Cardinality({t \in ServerThreads :
                           /\ server_pc'[t] = "Unregister_game"
                           /\ server_arg'[t].session = s}) <= 1
         /\ \A t \in ServerThreads :
              (/\ server_pc[t] = "Unregister_correlation"
               /\ server_pc'[t] # "Unregister_correlation"
               /\ server_arg[t].session = s
               /\ s \notin DOMAIN sessions_correlation_)
              => /\ server_pc'[t] = "idle"
                 /\ UNCHANGED <<sessions_correlation_, unidentified_sessions_,
                                games_>>
    ]_vars

\* Two Unregister calls were made for a session that had joined a game: one
\* found it and took it out of the game, the other found nothing.
C20_Witness ==
  \E s \in ServerSessions, t, u \in ServerThreads :
    /\ unregister_returned[s]
    /\ \A x \in ServerSessions \ {s} : ~UnregisterStarted(x)
    /\ server_ret[t] = "not_registered"
    /\ server_ret[u] \in {"left_game", "erased_game"}
    /\ removals[s] = 1
    /\ ~raced[s]

\* The step is one in which no thread but t changes its place or its locals
\* and Shutdown is not called.
OnlyThreadMoves(t) ==
  /\ \A u \in ServerThreads \ {t} :
       /\ server_pc'[u] = server_pc[u]
       /\ server_arg'[u] = server_arg[u]
       /\ server_ret'[u] = server_ret[u]
  /\ has_stopped_' = has_stopped_

\* C21: Register of a session that is already a key of sessions_correlation_
\* returns the unjoined delegate at once and changes nothing: not
\* sessions_correlation_, not unidentified_sessions_, no game, no delegate_.
\* An unidentified session is unidentified afterwards, a joined one keeps its
\* game name and its place in the game and is not unidentified.  And Register
\* goes on to its second part only for a session that was not a key.
C21_SecondRegisterChangesNothing ==
  [][\A t \in ServerThreads :
       /\ (/\ server_pc[t] = "idle"
           /\ server_pc'[t] = "idle"
           /\ server_ret'[t] = "already_registered"
           /\ OnlyThreadMoves(t))
          => UNCHANGED <<sessions_correlation_, unidentified_sessions_, games_,
                         delegate_>>
       /\ \A s \in ServerSessions :
            (/\ server_pc[t] = "idle"
             /\ server_pc'[t] = "Register_unidentified"
             /\ server_arg'[t].session = s)
            => /\ s \notin DOMAIN sessions_correlation_
               /\ sessions_correlation_' = MapPut(sessions_correlation_, s, NoGame)
    ]_vars

\* Register was called for a session that was registered: one session is
\* unidentified, the other has joined a game, both as they were.
C21_Witness ==
  \E t \in ServerThreads, s1, s2 \in ServerSessions :
    /\ server_pc[t] = "idle"
    /\ server_ret[t] = "already_registered"
    /\ s1 \in unidentified_sessions_
    /\ s1 \in DOMAIN sessions_correlation_
    /\ sessions_correlation_[s1] = NoGame
    /\ s2 \in DOMAIN sessions_correlation_
    /\ sessions_correlation_[s2] \in GameNames
    /\ IsInGame(games_[sessions_correlation_[s2]], s2)
    /\ s2 \notin unidentified_sessions_
    /\ ~UnregisterStarted(s1)
    /\ ~UnregisterStarted(s2)

\* C22: after Shutdown no join is accepted: a join request that the unjoined
\* delegate starts to handle when has_stopped_ is set creates no game and adds
\* the session to no game, games_ stays as it is.
C22_NoJoinAfterShutdown ==
  [][\A t \in ServerThreads, s \in ServerSessions, name \in GameNames :
       (has_stopped_ /\ (JoinInserts(t, s, name) \/ JoinRefused(s, name)))
         => games_' = games_
    ]_vars

\* C23: an Unregister call made after Shutdown returns at once: it changes
\* neither sessions_correlation_ nor unidentified_sessions_ nor games_ nor
\* the teams of any game, and no Unregister call made after Shutdown gets to
\* the locked sections.
C23_UnregisterAfterShutdownChangesNothing ==
  [][\A t \in ServerThreads :
       /\ (/\ server_pc[t] = "idle"
           /\ server_pc'[t] = "idle"
           /\ server_ret'[t] = "stopped"
           /\ OnlyThreadMoves(t))
          => /\ has_stopped_
             /\ UNCHANGED <<sessions_correlation_, unidentified_sessions_,
                            games_, delegate_>>
       /\ (/\ server_pc[t] = "idle"
           /\ server_pc'[t] = "Unregister_correlation")
          => ~has_stopped_
    ]_vars

\* Unregister was called after Shutdown while one session was unidentified
\* and another was in a game: both are as they were.
C23_Witness ==
  \E t \in ServerThreads, s1, s2 \in ServerSessions :
    /\ has_stopped_
    /\ server_pc[t] = "idle"
    /\ server_ret[t] = "stopped"
    /\ s1 \in unidentified_sessions_
    /\ s1 \in DOMAIN sessions_correlation_
    /\ s2 \in DOMAIN sessions_correlation_
    /\ sessions_correlation_[s2] \in GameNames
    /\ IsInGame(games_[sessions_correlation_[s2]], s2)

\* Session s gets a warning reply in this step.
WarningSent(s) ==
  /\ Len(replies'[s]) = Len(replies[s]) + 1
  /\ replies'[s][Len(replies'[s])].type = "warning"

\* C24: a frame of an unjoined session whose type is not "join" is answered
\* with exactly one warning, written to that session, and changes nothing:
\* not sessions_correlation_, not unidentified_sessions_, no game, and the
\* session's delegate_ is still the unjoined one.  A session that no
\* Unregister was called for is still unidentified.
C24_OtherFrameGetsOneWarning ==
  [][/\ \A t \in ServerThreads :
          (/\ server_pc[t] = "idle"
           /\ server_pc'[t] = "idle"
           /\ server_ret[t] # "warning"
           /\ server_ret'[t] = "warning")
          => \E s \in ServerSessions :
               /\ delegate_[s] = "unjoined"
               /\ replies' =
                    [replies EXCEPT
                       ![s] = Append(@, [game |-> NoGame, type |-> "warning",
                                         result |-> "none", players |-> 0])]
     /\ \A s \in ServerSessions :
          WarningSent(s) =>
            /\ replies'[s] = Append(replies[s], replies'[s][Len(replies'[s])])
            /\ \A x \in ServerSessions \ {s} : replies'[x] = replies[x]
            /\ UNCHANGED <<sessions_correlation_, unidentified_sessions_,
                           games_, delegate_>>
            /\ delegate_'[s] = "unjoined"
            /\ ~UnregisterStarted(s) =>
                 /\ s \in unidentified_sessions_'
                 /\ s \in DOMAIN sessions_correlation_'
                 /\ sessions_correlation_'[s] = NoGame
    ]_vars

\* An unjoined session sent a frame that is not a join: it has one reply, the
\* warning, and is unidentified with the unjoined delegate.
C24_Witness ==
  \E s \in ServerSessions :
    /\ replies[s] = <<[game |-> NoGame, type |-> "warning",
                       result |-> "none", players |-> 0]>>
    /\ s \in unidentified_sessions_
    /\ s \in DOMAIN sessions_correlation_
    /\ sessions_correlation_[s] = NoGame
    /\ delegate_[s] = "unjoined"

\* C25: Join never blocks: no thread is ever stopped for good at a lock() of
\* a team mutex inside a Join call, whatever the team value.
C25_JoinNeverBlocks ==
  \A t \in GameThreads : game_pc[t] # "blocked"

\* C26: the first team's mutex is taken before the second team's: no thread
\* is about to lock first_team_mtx_ while it holds second_team_mtx_.
C26_FirstTeamLockedBeforeSecond ==
  \A t \in GameThreads :
    game_pc[t] \in {"IsInGame_first", "GetCurrentState_first", "Leave_first"}
      => second_team_mtx_ # t

\* A frame of session s is handed to the unjoined delegate in this step.
UnjoinedDispatch(s) ==
  \/ \E t \in ServerThreads, name \in GameNames : JoinInserts(t, s, name)
  \/ \E name \in GameNames : JoinRefused(s, name)
  \/ WarningSent(s)

\* A frame of session s is handed to a Game's delegete_ in this step.
GameDispatch(s) == broadcasts'[s] = broadcasts[s] + 1

NoEmptyGame ==
  \A name \in DOMAIN games_ : GetPlayersCount(games_[name]) >= 1

\* C31: whenever games_mtx_ is not held every game in games_ has at least one
\* member, whatever way joins and Unregister calls interleave; and a join
\* that is refused leaves games_ with the names it had, no game is created
\* by it.
C31_NoEmptyGameInMap ==
  /\ [](games_mtx_ = NoThread => NoEmptyGame)
  /\ [][\A s \in ServerSessions, name \in GameNames :
          JoinRefused(s, name) => DOMAIN games_' = DOMAIN games_]_vars

\* A join was refused, an Unregister has erased the game its session was the
\* last member of, and games_ still holds a game, with nobody in games_mtx_.
C31_Witness ==
  /\ games_mtx_ = NoThread
  /\ DOMAIN games_ # {}
  /\ \E t \in ServerThreads : server_ret[t] = "erased_game"
  /\ \E s \in ServerSessions :
       \E i \in 1..Len(replies[s]) : replies[s][i].result = "full"

\* The join of session s has inserted it and does not return from Join.
JoinHangs(s) ==
  \E t \in ServerThreads :
    server_pc[t] = "blocked" /\ server_arg[t].session = s

\* C32: for a session whose join succeeds, in the order of the Write calls
\* made on the session the join-result "joined" comes before every frame that
\* a game broadcasts: no broadcast of another member is written to the
\* session ahead of its join-result.
C32_JoinResultBeforeBroadcasts ==
  \A s \in ServerSessions :
    ~JoinHangs(s)
      => \A i \in 1..Len(written[s]) :
           written[s][i].type = "broadcast"
             => \E j \in 1..(i - 1) : written[s][j].result = "joined"

(***************************************************************************)
(* Properties of the Server's registry mutexes.                            *)
(***************************************************************************)

\* The registry mutexes thread t holds.
HeldBy(t) == {m \in DOMAIN mtx_owner : mtx_owner[m] = t}

\* Thread t is at a lock() of a mutex that thread u holds.
WaitsFor(t, u) ==
  /\ lock_pc[t] \in DOMAIN LockStatements
  /\ mtx_owner[LockStatements[lock_pc[t]]] = u

\* C27: the registry mutexes are taken in the order sessions_correlation_mtx_,
\* unidentified_sessions_mtx_, games_mtx_: a thread that is at the lock() of
\* one of them holds none that comes later in that order, nor that one
\* itself.  So no threads of Register, Unregister and joins wait for one
\* another's registry mutexes in a circle.
C27_RegistryLockOrder ==
  /\ \A t \in LockThreads :
       lock_pc[t] \in DOMAIN LockStatements =>
         \A m \in HeldBy(t) : Rank(m) < Rank(LockStatements[lock_pc[t]])
  /\ \A t, u \in LockThreads : ~(WaitsFor(t, u) /\ WaitsFor(u, t))
  /\ \A t, u, v \in LockThreads :
       ~(WaitsFor(t, u) /\ WaitsFor(u, v) /\ WaitsFor(v, t))

\* Three calls run at once: a join holds games_mtx_, an Unregister waits for
\* it, and a Register holds sessions_correlation_mtx_.
C27_Witness ==
  \E t, u, v \in LockThreads :
    /\ lock_pc[t] = "MakeResponse_in_gm"
    /\ mtx_owner["games_mtx_"] = t
    /\ lock_pc[u] = "Unregister_lock_gm"
    /\ lock_pc[v] = "Register_in_scm"
    /\ mtx_owner["sessions_correlation_mtx_"] = v

(***************************************************************************)
(* Properties of whole Game calls.                                         *)
(***************************************************************************)

\* The team that holds session s in the game, "none" when neither does.
TeamHolding(s) ==
  IF InTeam(first_team_, s) THEN "kFirst"
  ELSE IF InTeam(second_team_, s) THEN "kSecond"
  ELSE "none"

\* C30: after every Join and Leave players_cache_ agrees with the teams: it
\* has an entry for a session exactly when a team holds the session, and the
\* entry names that team.
C30_PlayersCacheAgreesWithTeams ==
  (Len(calls) > 0 /\ calls[Len(calls)].op \in {"Join", "Leave"}) =>
    \A s \in AllGameSessions :
      /\ (s \in DOMAIN players_cache_) <=> (TeamHolding(s) # "none")
      /\ (s \in DOMAIN players_cache_) => players_cache_[s] = TeamHolding(s)

\* The game with session s added to its first, or to its second team.
WithFirst(game, s) == [game EXCEPT !.first_team_ = TeamInsert(@, s)]
WithSecond(game, s) == [game EXCEPT !.second_team_ = TeamInsert(@, s)]

\* The Join calls of the history whose session was in neither team.
JoinsOfNonMembers ==
  {i \in 1..Len(calls) :
     calls[i].op = "Join" /\ ~IsInGame(calls[i].before, calls[i].session)}

\* C12: Join with Team::kRandom puts the session into the team that has fewer
\* members, into the first team when both have the same size, and when the
\* team so chosen already has kMaxPlayersPerTeam = 5 members it returns the
\* empty result and inserts nowhere.
C12_RandomPicksSmallerTeam ==
  \A i \in JoinsOfNonMembers :
    calls[i].team = "kRandom" =>
      LET b == calls[i].before
          intoSecond == TeamSize(b.second_team_) < TeamSize(b.first_team_)
          chosen == IF intoSecond THEN b.second_team_ ELSE b.first_team_
      IN IF TeamSize(chosen) = kMaxPlayersPerTeam
           THEN /\ calls[i].ret = "empty_full"
                /\ calls[i].after = b
           ELSE /\ calls[i].ret \in {"joined", "no_return"}
                /\ calls[i].after = IF intoSecond
                                      THEN WithSecond(b, calls[i].session)
                                      ELSE WithFirst(b, calls[i].session)

\* A Join with Team::kRandom on teams of equal size went into the first team,
\* and the next one, the second team now the smaller, into the second.
C12_Witness ==
  \E i, j \in JoinsOfNonMembers :
    /\ calls[i].team = "kRandom" /\ calls[j].team = "kRandom"
    /\ calls[i].ret = "joined" /\ calls[j].ret = "joined"
    /\ TeamSize(calls[i].before.first_team_) = TeamSize(calls[i].before.second_team_)
    /\ InTeam(calls[i].after.first_team_, calls[i].session)
    /\ TeamSize(calls[j].before.second_team_) < TeamSize(calls[j].before.first_team_)
    /\ InTeam(calls[j].after.second_team_, calls[j].session)

\* C15: Join of a session that is already in the game returns the empty
\* result and leaves both teams as they were, whichever team is asked for.
C15_JoinOfMemberChangesNothing ==
  \A i \in 1..Len(calls) :
    (calls[i].op = "Join" /\ IsInGame(calls[i].before, calls[i].session)) =>
      /\ calls[i].ret = "empty_in_game"
      /\ calls[i].after = calls[i].before

\* A member has called Join with each of the three team values, each call
\* returned the empty result.
C15_Witness ==
  \A team \in Teams :
    \E i \in 1..Len(calls) :
      /\ calls[i].op = "Join"
      /\ calls[i].team = team
      /\ IsInGame(calls[i].before, calls[i].session)
      /\ calls[i].ret = "empty_in_game"

\* C16: Join with Team::kFirst or Team::kSecond whose team already has
\* kMaxPlayersPerTeam = 5 members returns the empty result and leaves both
\* teams as they were: the session does not go to the other team, room or not.
C16_FullTeamDoesNotSpill ==
  \A i \in JoinsOfNonMembers :
    LET b == calls[i].before
    IN (\/ /\ calls[i].team = "kFirst"
           /\ TeamSize(b.first_team_) = kMaxPlayersPerTeam
        \/ /\ calls[i].team = "kSecond"
           /\ TeamSize(b.second_team_) = kMaxPlayersPerTeam)
       => /\ calls[i].ret = "empty_full"
          /\ calls[i].after = b

\* Join with Team::kSecond was refused by a full second team while the first
\* team had room.
C16_Witness ==
  \E i \in JoinsOfNonMembers :
    /\ calls[i].team = "kSecond"
    /\ TeamSize(calls[i].before.second_team_) = kMaxPlayersPerTeam
    /\ TeamSize(calls[i].before.first_team_) < kMaxPlayersPerTeam
    /\ calls[i].ret = "empty_full"

\* C17: Leave(s) returns true exactly when s was in the game before the call,
\* and then s is in neither team; when s was not in the game it returns false
\* and both teams are as they were.  Every other session is in the teams as
\* before.
C17_LeaveRemovesExactlyTheSession ==
  \A i \in 1..Len(calls) :
    calls[i].op = "Leave" =>
      LET b == calls[i].before
          a == calls[i].after
          s == calls[i].session
      IN /\ calls[i].ret = "true" <=> IsInGame(b, s)
         /\ calls[i].ret \in LeaveResults
         /\ ~IsInGame(a, s)
         /\ ~IsInGame(b, s) => a = b
         /\ \A x \in AllGameSessions \ {s} :
              /\ a.first_team_[x] = b.first_team_[x]
              /\ a.second_team_[x] = b.second_team_[x]

\* One Leave removed a member of a game with other members and returned true,
\* another found its session in no team and returned false.
C17_Witness ==
  \E i, j \in 1..Len(calls) :
    /\ calls[i].op = "Leave" /\ calls[i].ret = "true"
    /\ GetPlayersCount(calls[i].after) > 0
    /\ calls[j].op = "Leave" /\ calls[j].ret = "false"

C19_BroadcastWritesEachMemberOnce ==
  \A i \in 1..Len(calls) :
    calls[i].op = "BroadcastPackage" =>
      \A s \in AllGameSessions :
        calls[i].writes[s] = IF IsInGame(calls[i].before, s) THEN 1 ELSE 0

\* A package was broadcast in a game with members in both teams and a session
\* outside: the sender and a member of the other team got one Write each.
C19_Witness ==
  \E i \in 1..Len(calls) :
    /\ calls[i].op = "BroadcastPackage"
    /\ calls[i].writes[calls[i].session] = 1
    /\ \E x \in AllGameSessions :
         /\ InTeam(calls[i].before.first_team_, x)
            # InTeam(calls[i].before.first_team_, calls[i].session)
         /\ IsInGame(calls[i].before, x)
         /\ calls[i].writes[x] = 1
    /\ \E y \in AllGameSessions :
         ~IsInGame(calls[i].before, y) /\ calls[i].writes[y] = 0

(***************************************************************************)
(* Properties of the Game's teams.                                         *)
(***************************************************************************)

\* C5: each team holds at most kMaxPlayersPerTeam = 5 sessions, in every
\* state that Join and Leave calls, interleaved in any way, can reach.
C5_TeamsWithinCapacity ==
  /\ TeamSize(first_team_) <= kMaxPlayersPerTeam
  /\ TeamSize(second_team_) <= kMaxPlayersPerTeam

\* Two overlapping Join calls went for the last free place of a team: one
\* was inserted, the other was turned away, and both teams are full.
C5_Witness ==
  /\ TeamSize(first_team_) = kMaxPlayersPerTeam
  /\ TeamSize(second_team_) = kMaxPlayersPerTeam
  /\ \E t, u \in GameThreads :
       game_ret[t] = "joined" /\ game_ret[u] = "empty_full"

\* C6: a session is held by at most one pair over both teams: never in both
\* teams, never twice in one.
C6_SessionAtMostOnce ==
  \A s \in AllGameSessions : first_team_[s] + second_team_[s] <= 1

(***************************************************************************)
(* Properties of the session's outbound pipeline.                          *)
(***************************************************************************)

\* An async_read is posted in this step.
PostsRead ==
  /\ read' = "pending"
  /\ (read # "pending" \/ incomming_queue_' # incomming_queue_)

\* An async_write is started in this step: by Write or HandleHandshake next
\* to those in flight, or by HandleWrite in the place of the completed one.
StartsWrite ==
  /\ writes_in_flight' # writes_in_flight
  /\ \E package \in 1..MaxWrites :
       \/ writes_in_flight' = Append(writes_in_flight, package)
       \/ /\ writes_in_flight # <<>>
          /\ writes_in_flight' = Append(Tail(writes_in_flight), package)

\* C29: a failed read or write is terminal for the session: once a read or a
\* write has completed with an error the session posts no read and starts no
\* write.
C29_FailureIsTerminal ==
  [][(transport_error \/ read = "failed") => (~PostsRead /\ ~StartsWrite)]_vars

\* HandleWrite runs without error in this step: the payload of the completed
\* async_write has gone out.
WriteCompleted == Len(wire') = Len(wire) + 1

\* C33: whenever HandleWrite runs without error outgoing_queue_ is not empty
\* and its front is the payload whose write has completed: HandleWrite pops
\* that payload, never an empty queue and never a payload that was not
\* written.
C33_HandleWritePopsTheWrittenHead ==
  /\ []~popped_empty
  /\ [][WriteCompleted
          => /\ outgoing_queue_ # <<>>
             /\ QueueFront(outgoing_queue_) = Head(writes_in_flight)
             /\ wire'[Len(wire')] = QueueFront(outgoing_queue_)
             /\ outgoing_queue_' = Tail(outgoing_queue_)]_vars

\* Three payloads were queued before the handshake: two writes have completed
\* and were popped, the third is at the front of the queue.
C33_Witness ==
  /\ wire = <<1, 2>>
  /\ outgoing_queue_ # <<>>
  /\ QueueFront(outgoing_queue_) = 3
  /\ writes_in_flight = <<3>>

\* C1: with no transport error, the payloads on the wire are, in order and
\* without repetition, the first payloads handed to Write; what has been
\* handed to Write and is not on the wire yet is the queue, in order.
C1_WireOrderIsEnqueueOrder ==
  ~transport_error =>
    /\ IsPrefix(wire, enqueued)
    /\ wire \o outgoing_queue_ = enqueued

\* Three payloads are on the wire, the last of them handed to Write after the
\* handshake, while a write-completion was outstanding.
C1_Witness ==
  /\ ~transport_error
  /\ Len(wire) = 3
  /\ Len(pre_handshake) = 1
  /\ handshake = "done"

\* C2: at most one async_write is outstanding in every state.
C2_AtMostOneWriteInFlight == Len(writes_in_flight) <= 1

\* One write is outstanding after the handshake while two further payloads,
\* handed over by later Write calls, wait behind it in the queue.
C2_Witness ==
  /\ handshake = "done"
  /\ Len(writes_in_flight) = 1
  /\ Len(outgoing_queue_) = 3
  /\ Len(enqueued) > Len(pre_handshake)

\* C3: no write is lost.  Once the handshake has succeeded and with no
\* transport error, a payload is never left in the queue with no async_write
\* outstanding: only a write-completion starts the next write, so such a
\* payload would never reach the wire.
C3_NoWriteIsLost ==
  (handshake = "done" /\ ~transport_error /\ writes_in_flight = <<>>) =>
    outgoing_queue_ = <<>>

\* C4: until the handshake has succeeded no async_write has been started and
\* every payload handed to Write is still queued; after it, with no transport
\* error, the wire carries the payloads queued at that moment first and in
\* order, all of them once the pipeline has gone idle, and nothing else when
\* no Write followed the handshake.
C4_NoWriteBeforeHandshake ==
  /\ handshake # "done" =>
        /\ writes_in_flight = <<>>
        /\ wire = <<>>
        /\ outgoing_queue_ = enqueued
  /\ (handshake = "done" /\ ~transport_error) =>
        /\ IsPrefix(wire, pre_handshake) \/ IsPrefix(pre_handshake, wire)
        /\ writes_in_flight = <<>> => IsPrefix(pre_handshake, wire)
        /\ (writes_in_flight = <<>> /\ enqueued = pre_handshake) =>
              wire = pre_handshake

\* W1, W2, W3 were handed to Write before the handshake, the handshake
\* succeeded, and exactly W1, W2, W3 are on the wire.
C4_Witness ==
  /\ handshake = "done"
  /\ pre_handshake = <<1, 2, 3>>
  /\ wire = <<1, 2, 3>>
  /\ enqueued = pre_handshake
  /\ writes_in_flight = <<>>

=============================================================================
